---- MODULE Spec2Model ----
(***************************************************************************)
(* Event-stream acquisition and reconciliation of the AutoDM test scripts: *)
(*   backend/fulltest.py          threaded WebSocketApp collector, polling *)
(*                                loop, REST fetch, selection, display     *)
(*                                loop and result record                   *)
(*   backend/test_debug.py        single-threaded drain and collect loops  *)
(*   backend/test_integration.py  listener thread and fixed 30 s window    *)
(* Time is counted in whole seconds, the resolution the scripts report     *)
(* (int(time.time() - start)); a sleep lasts exactly its duration.         *)
(***************************************************************************)
EXTENDS Integers, Sequences, FiniteSets, TLC

VARIABLES
    now,              \* wall clock, seconds since `start` (fulltest.py:74)
    pc,               \* position of the main thread of the script
    wake,             \* time at which the main thread's sleep / recv ends
    ws_state,         \* WebSocketApp thread: "opening","opened","running","closed"
    sent,             \* envelope types sent on the socket, in order
    collected_events, \* fulltest.py:41
    game_started,     \* fulltest.py:43
    chat_count,       \* fulltest.py:79
    rx_events,        \* history: payloads of the `event` envelopes received
    rx_ctl,           \* history: number of non-event messages received
    acked,            \* history: a `subscribed` envelope has been received
    t4,               \* history: arrival time of the 4th public.chat (-1: none)
    stop_at,          \* history: time the polling loop decided to stop (-1)
    n_at_stop,        \* history: len(collected_events) at that decision
    api_events,       \* fulltest.py:91/95
    rest_outcome,     \* history: "none", "ok" (api() returned), "failed" (raised)
    events,           \* fulltest.py:103: NAME of the list `events` is bound to
    chat_messages,    \* fulltest.py:105
    result,           \* fulltest.py:144, NoResult until written
    drain_events,     \* test_debug.py:46   `events`
    all_events,       \* test_debug.py:64
    start_time,       \* test_debug.py:65
    ws_messages,      \* test_integration.py:17
    ws_wake,          \* test_integration.py: time at which the listener's recv times out
    n_arrived         \* history: frames that reached the socket while it was open

collectVars == <<ws_state, sent, collected_events, game_started, chat_count,
                 rx_events, rx_ctl, acked, t4, stop_at, n_at_stop>>
reconVars   == <<api_events, rest_outcome, events, chat_messages, result>>
dbgVars     == <<drain_events, all_events, start_time>>
integVars   == <<ws_messages, ws_wake, n_arrived>>
vars        == <<now, pc, wake, collectVars, reconVars, dbgVars, integVars>>

(***************************************************************************)
(* Bounds of the model.                                                    *)
(***************************************************************************)
MaxBuf  == 2      \* longest live buffer the reconciliation is started from
MaxRest == 2      \* longest list the REST endpoint returns
MaxMsgs == 5      \* frames the server sends during one collection
MaxDbgMsgs   == 3 \* frames the server sends to test_debug.py
MaxIntegMsgs == 3 \* frames the server sends to test_integration.py

(***************************************************************************)
(* Program constants.                                                      *)
(***************************************************************************)
timeout      == 60    \* fulltest.py:75
PollInterval == 2     \* fulltest.py:77  time.sleep(2)
Quorum       == 4     \* fulltest.py:82  chat_count >= 4
Grace        == 5     \* fulltest.py:83  time.sleep(5)
ActorCut     == 20    \* fulltest.py:108 [:20]
DrainRecvTimeout   == 2   \* test_debug.py:49  ws.settimeout(2)
CollectRecvTimeout == 3   \* test_debug.py:68  ws.settimeout(3)
CollectWindow      == 45  \* test_debug.py:66
ListenerTimeout    == 5   \* test_integration.py:101  ws.settimeout(5)
StartupSleep       == 1   \* test_integration.py:107  time.sleep(1)
WindowSeconds      == 30  \* test_integration.py:116  range(30) of time.sleep(1)

None == 0 - 1           \* "not yet" for the history clocks

(***************************************************************************)
(* JSON values.  A dict key that is missing is Absent (NoKey for the actor),*)
(* a JSON null actor is NullVal.  seq 0 stands for a dict without the key  *)
(* 'seq' (the server numbers events from 1).  Strings that the code slices *)
(* are sequences of characters.                                            *)
(***************************************************************************)
Absent == "<absent>"
NoSeq  == 0

Str(s)   == [k |-> "str", s |-> s]
NullVal  == [k |-> "null", s |-> <<>>]
NoKey    == [k |-> "absent", s |-> <<>>]

Min(a, b) == IF a <= b THEN a ELSE b

\* s[:n] of a Python str
Slice(s, n) == SubSeq(s, 1, Min(Len(s), n))

LongId == [i \in 1..(ActorCut + 1) |-> "x"]

\* payload_json as sent by the server: JSON text (a str) or an already
\* decoded value
JsonTexts  == {"str:{message}", "str:{other}", "str:{}", "str:garbage", "str:[]"}
IsStr(v)   == v \in JsonTexts
\* json.loads: does the text parse
JsonValid(t) == t # "str:garbage"
\* json.loads: the value of a text that parses
JsonLoads(t) ==
    CASE t = "str:{message}" -> "dict:message"
      [] t = "str:{other}"   -> "dict:other"
      [] t = "str:{}"        -> "dict:empty"
      [] OTHER               -> "list"
IsDict(v) == v \in {"dict:message", "dict:other", "dict:empty"}

Event(t, q, a, p) ==
    [event_type |-> t, seq |-> q, actor_user_id |-> a, payload_json |-> p,
     data |-> Absent]

\* The events the live stream and the REST log are drawn from.
EventPool ==
    { Event("public.chat",  1, Str(<<"u", "1">>), "str:{message}"),
      Event("public.chat",  2, Str(LongId),       "str:garbage"),
      Event("game.started", 1, Str(<<"u", "2">>), "str:{other}"),
      Event("game.started", NoSeq, NoKey,         Absent),
      Event("public.chat",  2, NullVal,           "str:{message}"),
      Event("public.chat",  1, Str(<<"u", "1">>), "str:[]") }

RECURSIVE SeqsUpTo(_, _)
SeqsUpTo(S, n) ==
    IF n = 0 THEN {<<>>}
    ELSE LET shorter == SeqsUpTo(S, n - 1)
         IN  shorter \cup {Append(s, x) : s \in {t \in shorter : Len(t) = n - 1}, x \in S}

\* fulltest.py:79  sum(1 for e in collected_events if e.get('event_type') == 'public.chat')
ChatCount(buf) == Cardinality({i \in 1..Len(buf) : buf[i].event_type = "public.chat"})

(***************************************************************************)
(* fulltest.py:89-155: REST fetch, selection, display loop, result record. *)
(***************************************************************************)

\* a selection that prefers the live buffer whenever it holds something
SelectEvents_PreferLive(api) ==
    IF collected_events # <<>> THEN "collected_events" ELSE "api_events"

\* fulltest.py:103  events = api_events if api_events else collected_events
\* `events` is bound to one of the two list objects, not to a copy.
SelectEvents(api) == IF api # <<>> THEN "api_events" ELSE "collected_events"

\* the list the name `events` denotes
EventsList == IF events = "api_events" THEN api_events ELSE collected_events

\* fulltest.py:108  e.get('actor_user_id', '?')[:20]; None[:20] raises TypeError
ActorRaises(e) == e.actor_user_id.k = "null"
ActorOf(e) ==
    IF e.actor_user_id.k = "absent" THEN <<"?">> ELSE Slice(e.actor_user_id.s, ActorCut)

\* fulltest.py:110-114  the decoded payload
PayloadOf(e) ==
    LET pjson == IF e.payload_json = Absent THEN "str:{}" ELSE e.payload_json
    IN  IF IsStr(pjson)
        THEN IF JsonValid(pjson) THEN JsonLoads(pjson) ELSE "dict:empty"
        ELSE pjson

\* fulltest.py:116-117  payload.get(...) raises AttributeError unless payload is a dict
ChatRaises(e) == e.event_type = "public.chat" /\ ~IsDict(PayloadOf(e))
\* fulltest.py:117  payload.get('message', str(payload))
MessageOf(e) ==
    CASE PayloadOf(e) = "dict:message" -> "hello"
      [] PayloadOf(e) = "dict:other"   -> "{'x': 1}"
      [] OTHER                         -> "{}"

\* fulltest.py:109  e.get('seq', '?')
SeqOf(e) == e.seq

\* fulltest.py:106-122  one pass of the display loop over `evs`:
\* raised is TRUE when an iteration raises, chat is chat_messages so far
RECURSIVE DisplayLoop(_, _)
DisplayLoop(evs, chat) ==
    IF evs = <<>> THEN [raised |-> FALSE, chat |-> chat]
    ELSE LET e == Head(evs) IN
         IF ActorRaises(e) \/ ChatRaises(e)
         THEN [raised |-> TRUE, chat |-> chat]
         ELSE DisplayLoop(Tail(evs),
                  IF e.event_type = "public.chat"
                  THEN Append(chat, [seq |-> SeqOf(e), actor |-> ActorOf(e),
                                     message |-> MessageOf(e)])
                  ELSE chat)

\* no result file has been written
NoResult == [provider |-> "<none>"]

\* fulltest.py:144-151
ResultRecord(evs, chat, elapsed) ==
    [provider        |-> "gemini",
     room_id         |-> "room",
     total_events    |-> Len(evs),
     chat_count      |-> Len(chat),
     elapsed_seconds |-> elapsed,
     messages        |-> chat]

\* State in which ws.close() has returned (fulltest.py:86): any buffer the
\* collector can have filled, at a time the polling loop can have ended.
InitReconcile ==
    /\ collected_events \in SeqsUpTo(EventPool, MaxBuf)
    /\ now \in (IF ChatCount(collected_events) >= Quorum
                THEN {PollInterval + Grace, timeout + Grace} ELSE {timeout})
    /\ pc = "fetch"
    /\ wake = 0
    /\ ws_state \in {"closed", "dispatching"}   \* as ws.close() leaves it
    /\ sent = <<"subscribe", "command">>
    /\ game_started = (\E i \in 1..Len(collected_events) :
                            collected_events[i].event_type = "game.started")
    /\ chat_count = ChatCount(collected_events)
    /\ rx_events = collected_events
    /\ rx_ctl = 0
    /\ acked = FALSE
    /\ t4 = None /\ stop_at = now /\ n_at_stop = Len(collected_events)
    /\ api_events = <<>>
    /\ rest_outcome = "none"
    /\ events = "unbound"
    /\ chat_messages = <<>>
    /\ result = NoResult
    /\ drain_events = <<>> /\ all_events = <<>> /\ start_time = None
    /\ ws_messages = <<>> /\ ws_wake = 0 /\ n_arrived = 0

\* fulltest.py:90-92  api('GET', .../events) returns a JSON list
FetchOk(resp) ==
    /\ pc = "fetch"
    /\ api_events' = resp
    /\ rest_outcome' = "ok"
    /\ pc' = "select"
    /\ UNCHANGED <<now, wake, collectVars, dbgVars, integVars, events, chat_messages, result>>

\* fulltest.py:93-95  api() raised (network error, HTTP error, malformed body)
FetchFailed ==
    /\ pc = "fetch"
    /\ api_events' = <<>>
    /\ rest_outcome' = "failed"
    /\ pc' = "select"
    /\ UNCHANGED <<now, wake, collectVars, dbgVars, integVars, events, chat_messages, result>>

\* fulltest.py:103-105
Select ==
    /\ pc = "select"
    /\ events' = SelectEvents(api_events)
    /\ chat_messages' = <<>>
    /\ pc' = "display"
    /\ UNCHANGED <<now, wake, collectVars, dbgVars, integVars, api_events, rest_outcome, result>>

\* fulltest.py:106-122  the display loop; an uncaught exception ends the script
Display ==
    /\ pc = "display"
    /\ LET r == DisplayLoop(EventsList, <<>>) IN
         /\ chat_messages' = r.chat
         /\ pc' = IF r.raised THEN "crashed" ELSE "summary"
    /\ UNCHANGED <<now, wake, collectVars, dbgVars, integVars, api_events, rest_outcome, events, result>>

\* fulltest.py:124-155  WS chat check, summary, result record written
WriteResult ==
    /\ pc = "summary"
    /\ result' = ResultRecord(EventsList, chat_messages, now)
    /\ pc' = "done"
    /\ UNCHANGED <<now, wake, collectVars, dbgVars, integVars, api_events, rest_outcome, events, chat_messages>>

(***************************************************************************)
(* fulltest.py:41-87: the WebSocketApp thread (on_open, on_message) and    *)
(* the polling loop of the main thread.                                    *)
(***************************************************************************)
NotJson == "<not json>"

\* a text frame as json.loads sees it: the envelope type, and the payload
\* when the envelope has the key 'payload'
Envelope(t, hp, p) == [type |-> t, has_payload |-> hp, payload |-> p]

\* {}
EmptyDict == Event(Absent, NoSeq, NoKey, Absent)

ChatEvent    == Event("public.chat", 1, Str(<<"u", "1">>), "str:{message}")
StartedEvent == Event("game.started", 2, NoKey, Absent)

\* the frames the server sends on the socket
WsMessages ==
    { Envelope("event", TRUE, ChatEvent),
      Envelope("event", TRUE, StartedEvent),
      Envelope("event", FALSE, EmptyDict),
      Envelope("subscribed", FALSE, EmptyDict),
      Envelope(NotJson, FALSE, EmptyDict) }

\* fulltest.py:47  json.loads(message) returns
Parses(m) == m.type # NotJson

\* fulltest.py:48  msg.get('type') == 'event'
IsEvent(m) == Parses(m) /\ m.type = "event"

\* fulltest.py:49  msg.get('payload', {})
EvtOf(m) == IF m.has_payload THEN m.payload ELSE EmptyDict

\* fulltest.py:51  evt.get('event_type', '?')
EventType(e) == IF e.event_type = Absent THEN "?" ELSE e.event_type

\* fulltest.py:50  collected_events.append(evt)
OnMessageBuffer(buf, m) == IF IsEvent(m) THEN Append(buf, EvtOf(m)) ELSE buf

\* fulltest.py:52-53
OnMessageStarted(flag, m) ==
    flag \/ (IsEvent(m) /\ EventType(EvtOf(m)) = "game.started")

\* a quorum test that is one chat message short
QuorumReached_OneShort(n) == n >= Quorum - 1

\* fulltest.py:82  if chat_count >= 4
QuorumReached(n) == n >= Quorum

\* a loop condition that still holds when the budget is used up
LoopContinues_Inclusive(t) == t <= timeout

\* fulltest.py:76  while time.time() - start < timeout
LoopContinues(t) == t < timeout

Init ==
    /\ now = 0
    /\ pc = "sleep"                  \* in time.sleep(2) of the first iteration
    /\ wake = PollInterval
    /\ ws_state = "opening"
    /\ sent = <<>>
    /\ collected_events = <<>>
    /\ game_started = FALSE
    /\ chat_count = 0
    /\ rx_events = <<>>
    /\ rx_ctl = 0
    /\ acked = FALSE
    /\ t4 = None /\ stop_at = None /\ n_at_stop = 0
    /\ api_events = <<>>
    /\ rest_outcome = "none"
    /\ events = "unbound"
    /\ chat_messages = <<>>
    /\ result = NoResult
    /\ drain_events = <<>> /\ all_events = <<>> /\ start_time = None
    /\ ws_messages = <<>> /\ ws_wake = 0 /\ n_arrived = 0

\* fulltest.py:57-61  on_open sends the subscribe envelope, then sleeps 0.5 s
OnOpenSubscribe ==
    /\ ws_state = "opening"
    /\ sent' = Append(sent, "subscribe")
    /\ ws_state' = "opened"
    /\ UNCHANGED <<now, pc, wake, collected_events, game_started, chat_count,
                   rx_events, rx_ctl, acked, t4, stop_at, n_at_stop, reconVars, dbgVars, integVars>>

\* fulltest.py:62-66  after the sleep on_open sends the start_game command;
\* the thread dispatches no message until on_open has returned
OnOpenCommand ==
    /\ ws_state = "opened"
    /\ sent' = Append(sent, "command")
    /\ ws_state' = "running"
    /\ UNCHANGED <<now, pc, wake, collected_events, game_started, chat_count,
                   rx_events, rx_ctl, acked, t4, stop_at, n_at_stop, reconVars, dbgVars, integVars>>

\* fulltest.py:45-55  the body of on_message for the frame m
Dispatch(m) ==
    /\ collected_events' = OnMessageBuffer(collected_events, m)
    /\ game_started' = OnMessageStarted(game_started, m)
    /\ rx_events' = IF m.type = "event" THEN Append(rx_events, m.payload) ELSE rx_events
    /\ rx_ctl' = IF m.type = "event" THEN rx_ctl ELSE rx_ctl + 1
    /\ acked' = (acked \/ m.type = "subscribed")
    /\ t4' = IF t4 = None /\ m.type = "event" /\ m.payload.event_type = "public.chat"
                /\ ChatCount(rx_events) = Quorum - 1
             THEN now ELSE t4

\* fulltest.py:45-55  on_message, run by the WebSocketApp thread for each frame
OnMessage(m) ==
    /\ ws_state = "running"
    /\ Len(rx_events) + rx_ctl < MaxMsgs
    /\ Dispatch(m)
    /\ UNCHANGED <<now, pc, wake, ws_state, sent, chat_count, stop_at, n_at_stop,
                   reconVars, dbgVars, integVars>>

\* fulltest.py:68-71, 86  the WebSocketApp thread is a daemon thread that is
\* never joined, and ws.close() does not wait for it: a frame the thread read
\* before the close is handled by on_message after ws.close() has returned,
\* at any point of the main thread up to the end of the script
LateOnMessage(m) ==
    /\ ws_state = "dispatching"
    /\ pc \in {"collected", "fetch", "select", "display", "summary"}
    /\ Dispatch(m)
    /\ ws_state' = "closed"
    /\ UNCHANGED <<now, pc, wake, sent, chat_count, stop_at, n_at_stop,
                   reconVars, dbgVars, integVars>>

\* fulltest.py:76-84  the sleep of one iteration ends: count the chat
\* messages, break into the grace sleep on quorum, else test the loop
\* condition and sleep again or leave the loop
Poll ==
    /\ pc = "sleep" /\ now = wake
    /\ chat_count' = ChatCount(collected_events)
    /\ IF QuorumReached(chat_count')
       THEN /\ pc' = "grace" /\ wake' = now + Grace
            /\ stop_at' = now /\ n_at_stop' = Len(collected_events)
       ELSE IF LoopContinues(now)
       THEN /\ pc' = "sleep" /\ wake' = now + PollInterval
            /\ UNCHANGED <<stop_at, n_at_stop>>
       ELSE /\ pc' = "close" /\ wake' = wake
            /\ stop_at' = now /\ n_at_stop' = Len(collected_events)
    /\ UNCHANGED <<now, ws_state, sent, collected_events, game_started,
                   rx_events, rx_ctl, acked, t4, reconVars, dbgVars, integVars>>

\* fulltest.py:83-84  time.sleep(5) ends; break
GraceEnd ==
    /\ pc = "grace" /\ now = wake
    /\ pc' = "close"
    /\ UNCHANGED <<now, wake, collectVars, reconVars, dbgVars, integVars>>

\* fulltest.py:86  ws.close()
Close ==
    /\ pc = "close"
    /\ ws_state' \in IF ws_state = "running" /\ Len(rx_events) + rx_ctl < MaxMsgs
                     THEN {"closed", "dispatching"} ELSE {"closed"}
    /\ pc' = "collected"
    /\ UNCHANGED <<now, wake, sent, collected_events, game_started, chat_count,
                   rx_events, rx_ctl, acked, t4, stop_at, n_at_stop, reconVars, dbgVars, integVars>>

\* one second passes while the main thread sleeps
Tick ==
    /\ pc \in {"sleep", "grace"} /\ now < wake
    /\ now' = now + 1
    /\ UNCHANGED <<pc, wake, collectVars, reconVars, dbgVars, integVars>>

Next ==
    \/ OnOpenSubscribe
    \/ OnOpenCommand
    \/ \E m \in WsMessages : OnMessage(m)
    \/ Poll
    \/ GraceEnd
    \/ Close
    \/ \E m \in WsMessages : LateOnMessage(m)
    \/ Tick

Spec == Init /\ [][Next]_vars

\* The same collection on a stream that carries the session's terminal event.
EndedEvent == Event("game.ended", 3, NoKey, Absent)

TerminalMessages ==
    { Envelope("event", TRUE, ChatEvent),
      Envelope("event", TRUE, EndedEvent) }

NextTerminal ==
    \/ OnOpenSubscribe
    \/ OnOpenCommand
    \/ \E m \in TerminalMessages : OnMessage(m)
    \/ Poll
    \/ GraceEnd
    \/ Close
    \/ \E m \in TerminalMessages : LateOnMessage(m)
    \/ Tick

SpecTerminal == Init /\ [][NextTerminal]_vars

\* fulltest.py:89-155  the main thread after ws.close(), with the
\* WebSocketApp thread beside it
NextReconcile ==
    \/ \E resp \in SeqsUpTo(EventPool, MaxRest) : FetchOk(resp)
    \/ FetchFailed
    \/ Select
    \/ Display
    \/ WriteResult
    \/ \E m \in WsMessages : LateOnMessage(m)

SpecReconcile == InitReconcile /\ [][NextReconcile]_vars

(***************************************************************************)
(* test_debug.py:39-115: one thread; a drain loop until `subscribed`, the  *)
(* start_game command, then a 45 s collection loop.                        *)
(***************************************************************************)
\* an AI message event whose 'data' is a string, not an object
DmEvent == [Event("dm.public_message", 3, NoKey, Absent) EXCEPT !.data = "str"]

\* the frames the server sends to test_debug.py
DebugMessages ==
    { Envelope("event", TRUE, ChatEvent),
      Envelope("event", TRUE, DmEvent),
      Envelope("subscribed", FALSE, EmptyDict),
      Envelope(NotJson, FALSE, EmptyDict) }

\* test_debug.py:76  payload.get('data', {})
DataOf(e) == IF e.data = Absent THEN "dict:empty" ELSE e.data

\* test_debug.py:78
AiTypes == {"dm.public_message", "dm.private_message", "ai.decision", "autodm.message"}

\* test_debug.py:72-87  the printing of a received envelope raises:
\* data.get(...) at line 79 needs `data` to be a dict
ProcessingRaises(m) ==
    /\ m.type = "event"
    /\ EventType(EvtOf(m)) \in AiTypes
    /\ ~IsDict(DataOf(EvtOf(m)))

\* test_debug.py:66  while time.time() - start_time < 45
DebugLoopContinues(t, st) == t - st < CollectWindow

IsEventEnvelope(m) == m.type = "event"

\* test_debug.py:98-102  the payloads the event distribution is computed
\* from: those of the `event` envelopes of all_events
EventPayloads(envs) ==
    LET ev == SelectSeq(envs, IsEventEnvelope)
    IN  [i \in 1..Len(ev) |-> EvtOf(ev[i])]

InitDebug ==
    /\ now = 0
    /\ pc = "drain"                   \* in ws.recv() of the drain loop
    /\ wake = DrainRecvTimeout
    /\ ws_state = "running"
    /\ sent = <<"subscribe">>         \* test_debug.py:44
    /\ collected_events = <<>>
    /\ game_started = FALSE
    /\ chat_count = 0
    /\ rx_events = <<>>
    /\ rx_ctl = 0
    /\ acked = FALSE
    /\ t4 = None /\ stop_at = None /\ n_at_stop = 0
    /\ api_events = <<>>
    /\ rest_outcome = "none"
    /\ events = "unbound"
    /\ chat_messages = <<>>
    /\ result = NoResult
    /\ drain_events = <<>> /\ all_events = <<>> /\ start_time = None
    /\ ws_messages = <<>> /\ ws_wake = 0 /\ n_arrived = 0

\* history of what ws.recv() returned
Received(m) ==
    /\ rx_events' = IF m.type = "event" THEN Append(rx_events, m.payload) ELSE rx_events
    /\ rx_ctl' = IF m.type = "event" THEN rx_ctl ELSE rx_ctl + 1
    /\ acked' = (acked \/ m.type = "subscribed")

\* test_debug.py:56-68  the drain loop is left: send start_game, take
\* start_time, enter the collection loop and block in ws.recv()
LeaveDrain ==
    /\ sent' = Append(sent, "command")
    /\ start_time' = now
    /\ pc' = "collect"
    /\ wake' = now + CollectRecvTimeout

\* test_debug.py:47-53  ws.recv() of the drain loop returns a frame
DrainRecv(m) ==
    /\ pc = "drain"
    /\ Len(rx_events) + rx_ctl < MaxDbgMsgs
    /\ Received(m)
    /\ IF Parses(m)
       THEN /\ drain_events' = Append(drain_events, m)
            /\ IF m.type = "subscribed"
               THEN LeaveDrain
               ELSE /\ pc' = "drain" /\ wake' = now + DrainRecvTimeout
                    /\ UNCHANGED <<sent, start_time>>
       ELSE /\ drain_events' = drain_events     \* json.loads raised: break
            /\ LeaveDrain
    /\ UNCHANGED <<now, ws_state, collected_events, game_started, chat_count,
                   t4, stop_at, n_at_stop, reconVars, all_events, integVars>>

\* test_debug.py:54-55  ws.recv() of the drain loop times out: break
DrainTimeout ==
    /\ pc = "drain" /\ now = wake
    /\ LeaveDrain
    /\ UNCHANGED <<now, ws_state, collected_events, game_started, chat_count,
                   rx_events, rx_ctl, acked, t4, stop_at, n_at_stop, reconVars,
                   drain_events, all_events, integVars>>

\* test_debug.py:66  the loop condition, evaluated before the next ws.recv()
NextIteration ==
    IF DebugLoopContinues(now, start_time)
    THEN pc' = "collect" /\ wake' = now + CollectRecvTimeout
    ELSE pc' = "analysis" /\ wake' = wake

\* test_debug.py:67-87, 90-92  ws.recv() of the collection loop returns a frame
CollectRecv(m) ==
    /\ pc = "collect"
    /\ Len(rx_events) + rx_ctl < MaxDbgMsgs
    /\ Received(m)
    /\ IF Parses(m)
       THEN /\ all_events' = Append(all_events, m)
            /\ IF ProcessingRaises(m)
               THEN pc' = "analysis" /\ wake' = wake
               ELSE NextIteration
       ELSE /\ all_events' = all_events
            /\ pc' = "analysis" /\ wake' = wake
    /\ UNCHANGED <<now, ws_state, sent, collected_events, game_started, chat_count,
                   t4, stop_at, n_at_stop, reconVars, drain_events, start_time,
                   integVars>>

\* test_debug.py:88-89  WebSocketTimeoutException: continue
CollectTimeout ==
    /\ pc = "collect" /\ now = wake
    /\ NextIteration
    /\ UNCHANGED <<now, collectVars, reconVars, dbgVars, integVars>>

\* test_debug.py:94-115  event distribution, final state, ws.close()
Analyze ==
    /\ pc = "analysis"
    /\ pc' = "done"
    /\ ws_state' = "closed"
    /\ UNCHANGED <<now, wake, sent, collected_events, game_started, chat_count,
                   rx_events, rx_ctl, acked, t4, stop_at, n_at_stop, reconVars,
                   dbgVars, integVars>>

\* one second passes while ws.recv() blocks
DebugTick ==
    /\ pc \in {"drain", "collect"} /\ now < wake
    /\ now' = now + 1
    /\ UNCHANGED <<pc, wake, collectVars, reconVars, dbgVars, integVars>>

NextDebug ==
    \/ \E m \in DebugMessages : DrainRecv(m)
    \/ DrainTimeout
    \/ \E m \in DebugMessages : CollectRecv(m)
    \/ CollectTimeout
    \/ Analyze
    \/ DebugTick

SpecDebug == InitDebug /\ [][NextDebug]_vars

(***************************************************************************)
(* test_integration.py:40-51, 97-182: a listener thread that appends what  *)
(* ws.recv() returns, and a main thread that sends start_game after 1 s    *)
(* and reads ws_messages after 30 more.                                    *)
(***************************************************************************)
\* test_integration.py:49  {"raw": msg}
RawMessage == Envelope("<raw>", FALSE, EmptyDict)

\* test_integration.py:45-49
Decoded(m) == IF Parses(m) THEN m ELSE RawMessage

InitInteg ==
    /\ now = 0
    /\ pc = "startup"                 \* in time.sleep(1), test_integration.py:107
    /\ wake = StartupSleep
    /\ ws_state = "listening"         \* the listener is in ws.recv()
    /\ ws_wake = ListenerTimeout
    /\ sent = <<>>
    /\ collected_events = <<>>
    /\ game_started = FALSE
    /\ chat_count = 0
    /\ rx_events = <<>>
    /\ rx_ctl = 0
    /\ acked = FALSE
    /\ t4 = None /\ stop_at = None /\ n_at_stop = 0
    /\ api_events = <<>>
    /\ rest_outcome = "none"
    /\ events = "unbound"
    /\ chat_messages = <<>>
    /\ result = NoResult
    /\ drain_events = <<>> /\ all_events = <<>> /\ start_time = None
    /\ ws_messages = <<>> /\ n_arrived = 0

\* test_integration.py:41-49  ws.recv() returns a frame to the listener
ListenerRecv(m) ==
    /\ ws_state = "listening"
    /\ n_arrived < MaxIntegMsgs
    /\ ws_messages' = Append(ws_messages, Decoded(m))
    /\ ws_wake' = now + ListenerTimeout
    /\ n_arrived' = n_arrived + 1
    /\ Received(m)
    /\ UNCHANGED <<now, pc, wake, ws_state, sent, collected_events, game_started,
                   chat_count, t4, stop_at, n_at_stop, reconVars, dbgVars>>

\* test_integration.py:50-51  ws.recv() raises WebSocketTimeoutException
\* after 5 s without a frame: `except Exception: break` ends the listener
ListenerTimedOut ==
    /\ ws_state = "listening" /\ now = ws_wake
    /\ ws_state' = "ended"
    /\ UNCHANGED <<now, pc, wake, sent, collected_events, game_started, chat_count,
                   rx_events, rx_ctl, acked, t4, stop_at, n_at_stop, reconVars,
                   dbgVars, integVars>>

\* the server sends a frame while the socket is open and no thread reads it
FrameUnread ==
    /\ ws_state = "ended" /\ pc # "done"
    /\ n_arrived < MaxIntegMsgs
    /\ n_arrived' = n_arrived + 1
    /\ UNCHANGED <<now, pc, wake, collectVars, reconVars, dbgVars, ws_messages, ws_wake>>

\* test_integration.py:107-112  the sleep ends; start_game is sent (no
\* subscribe envelope is ever sent)
SendStart ==
    /\ pc = "startup" /\ now = wake
    /\ sent' = Append(sent, "start_game")
    /\ pc' = "window"
    /\ wake' = now + WindowSeconds
    /\ UNCHANGED <<now, ws_state, collected_events, game_started, chat_count,
                   rx_events, rx_ctl, acked, t4, stop_at, n_at_stop, reconVars,
                   dbgVars, integVars>>

\* test_integration.py:116-182  the 30 sleeps of 1 s are over: analysis of
\* ws_messages, REST calls, ws.close()
Finish ==
    /\ pc = "window" /\ now = wake
    /\ pc' = "done"
    /\ ws_state' = "closed"
    /\ UNCHANGED <<now, wake, sent, collected_events, game_started, chat_count,
                   rx_events, rx_ctl, acked, t4, stop_at, n_at_stop, reconVars,
                   dbgVars, integVars>>

\* one second passes while the main thread sleeps and the listener waits
IntegTick ==
    /\ pc \in {"startup", "window"} /\ now < wake
    /\ ws_state = "listening" => now < ws_wake
    /\ now' = now + 1
    /\ UNCHANGED <<pc, wake, collectVars, reconVars, dbgVars, integVars>>

NextInteg ==
    \/ \E m \in WsMessages : ListenerRecv(m)
    \/ ListenerTimedOut
    \/ FrameUnread
    \/ SendStart
    \/ Finish
    \/ IntegTick

SpecInteg == InitInteg /\ [][NextInteg]_vars

(***************************************************************************)
(* Claims about the reconciliation (fulltest.py:89-155).                   *)
(***************************************************************************)
Selected == pc \in {"display", "summary", "crashed", "done"}

\* sort key of the specification: events without a seq go last
SortKey(e) == IF e.seq = NoSeq THEN 1000000 ELSE e.seq

\* stable insertion of e into the sorted list s
RECURSIVE InsertBySeq(_, _)
InsertBySeq(s, e) ==
    IF s = <<>> THEN <<e>>
    ELSE IF SortKey(s[Len(s)]) <= SortKey(e) THEN Append(s, e)
    ELSE Append(InsertBySeq(SubSeq(s, 1, Len(s) - 1), e), s[Len(s)])

\* the list sorted ascending by seq, stable, events without seq last
RECURSIVE SortBySeq(_)
SortBySeq(s) ==
    IF s = <<>> THEN <<>>
    ELSE InsertBySeq(SortBySeq(SubSeq(s, 1, Len(s) - 1)), s[Len(s)])

C2_FallbackSorted ==
    (Selected /\ rest_outcome = "failed") =>
        EventsList = SortBySeq(collected_events)

\* C3: after a failed REST fetch the list chosen for reporting holds each seq
\* at most once, the first arrival of it, and the record counts each seq once.
DistinctSeqs(s) == {s[i].seq : i \in {j \in 1..Len(s) : s[j].seq # NoSeq}}
Unsequenced(s)  == {i \in 1..Len(s) : s[i].seq = NoSeq}
FirstWithSeq(s, q) == s[CHOOSE i \in 1..Len(s) :
                           s[i].seq = q /\ \A j \in 1..(i - 1) : s[j].seq # q]
C3_FallbackDeduplicated ==
    (Selected /\ rest_outcome = "failed") =>
        /\ \A i, j \in 1..Len(EventsList) :
              (i < j /\ EventsList[i].seq # NoSeq) => EventsList[i].seq # EventsList[j].seq
        /\ \A i \in 1..Len(EventsList) :
              EventsList[i].seq # NoSeq =>
                  EventsList[i] = FirstWithSeq(collected_events, EventsList[i].seq)
        /\ (pc = "done" =>
               result.total_events = Cardinality(DistinctSeqs(collected_events))
                                     + Cardinality(Unsequenced(collected_events)))

\* C4: once collection has stopped the script reaches its end and writes the
\* result record: every state is the finished one or has a next step.
C4_ReachesResult ==
    (pc = "done" /\ result # NoResult) \/ ENABLED NextReconcile

\* C5: a record whose events come from the live buffer differs from every
\* record a run reporting a REST list would write (it is marked best-effort).
C5_LiveResultMarked ==
    (pc = "done" /\ events = "collected_events") =>
        \A api \in SeqsUpTo(EventPool, MaxRest) \ {<<>>} :
            LET r == DisplayLoop(api, <<>>)
            IN  r.raised \/ ResultRecord(api, r.chat, now) # result

(***************************************************************************)
(* Claims about the collection (fulltest.py:41-87).                        *)
(***************************************************************************)
\* chat messages in the buffer when the polling loop decided to stop
ChatCountAtStop == ChatCount(SubSeq(collected_events, 1, n_at_stop))

\* C7: when the 4th public.chat arrives at t4 within the budget, the polling
\* loop decides to stop at a time in [t4, t4 + Grace), never before t4; during
\* the grace sleep the socket is still open and every event received, those of
\* the grace period included, is in the buffer.
C7_QuorumStop ==
    /\ (stop_at # None /\ t4 # None /\ t4 <= timeout) =>
           (stop_at >= t4 /\ stop_at < t4 + Grace)
    /\ (t4 # None /\ t4 <= timeout /\ now >= t4 + Grace) => stop_at # None
    /\ (pc = "grace" => ws_state = "running")
    /\ collected_events = rx_events

\* a finished collection that reached the quorum between two polls and
\* received a further event during the grace sleep
C7_Witness ==
    /\ pc = "collected" /\ t4 # None /\ stop_at > t4
    /\ ChatCountAtStop >= Quorum
    /\ Len(collected_events) > n_at_stop

\* C8: when the stream has not reached the quorum, the polling loop stops at
\* exactly `timeout` seconds: at no earlier poll, and it never sleeps past it.
C8_TimeoutStop ==
    /\ (stop_at # None /\ ChatCountAtStop < Quorum) => stop_at = timeout
    /\ (pc = "sleep" => wake <= timeout)

\* a collection that ended on the budget with some events but no quorum
C8_Witness ==
    /\ pc = "collected" /\ stop_at = timeout
    /\ collected_events # <<>> /\ ChatCountAtStop < Quorum

\* C9: the command envelope is sent only after a subscribe has been sent and
\* its `subscribed` acknowledgment has been received.
Sent(t) == \E i \in 1..Len(sent) : sent[i] = t
C9_CommandAfterAck ==
    [][(~Sent("command") /\ Sent("command")') => (Sent("subscribe") /\ acked)]_vars

(***************************************************************************)
(* Claims about the collectors of test_debug.py and test_integration.py.   *)
(***************************************************************************)
\* C6: the event buffer holds exactly the payloads of the `event` envelopes
\* received since connect, in arrival order: none dropped (also not those
\* received before the `subscribed` ack), none reordered, none changed.
C6_BufferIsArrivals ==
    EventPayloads(all_events) = rx_events

\* C10: while the collection window is open a read timeout does not end the
\* collector, so every frame that reaches the socket is collected.
C10_TimeoutKeepsCollecting ==
    pc \in {"startup", "window"} =>
        (ws_state = "listening" /\ Len(ws_messages) = n_arrived)

\* C11: every receive loop ends within its explicit budget for every arrival
\* pattern: the drain loop of test_debug.py within the one timeout it sets,
\* also when the server keeps sending frames other than `subscribed`, and the
\* collection loop within its window plus the last receive.
C11_LoopsWithinBudget ==
    /\ pc = "drain" => now <= DrainRecvTimeout
    /\ pc = "collect" => now - start_time <= CollectWindow + CollectRecvTimeout

\* C12: a poll at which a terminal event is in the buffer, or the quorum is
\* reached, or the budget has elapsed, leaves the polling loop; so a stream
\* that delivers the terminal event early stops collection before the budget.
TerminalTypes == {"game.ended"}
HasTerminal(buf) == \E i \in 1..Len(buf) : buf[i].event_type \in TerminalTypes
PollStep == pc = "sleep" /\ <<pc, wake>>' # <<pc, wake>>
C12_StopsOnAnyCondition ==
    [][(PollStep /\ (\/ HasTerminal(collected_events)
                     \/ ChatCount(collected_events) >= Quorum
                     \/ now >= timeout))
          => pc' # "sleep"]_vars

\* C13: an envelope of a kind other than `event` is never appended to the
\* event buffer and is recorded by the collector: receiving one leaves
\* collected_events as it was and leaves a record in the state the
\* program keeps (the weakest reading of "is in the control list": some
\* variable of the program, other than the buffer, holds a trace of it).
ProgramState == <<pc, wake, ws_state, sent, collected_events, game_started, chat_count>>
ControlReceived == rx_ctl' = rx_ctl + 1
C13_ControlRecorded ==
    [][ControlReceived => /\ collected_events' = collected_events
                          /\ ProgramState' # ProgramState]_vars

\* the half of C13 that the collector of fulltest.py keeps: the buffer
\* holds exactly the payloads of the event envelopes received, in order
C13_BufferOnlyEvents == collected_events = rx_events

\* C14: once ws.close() has returned, the collector thread appends nothing
\* more to the shared buffer: from the close to the end of the script no step
\* changes collected_events, so the selection, the display loop and the
\* result record all read the same buffer.
AfterClose == pc \in {"collected", "fetch", "select", "display", "summary", "done", "crashed"}
C14_NoAppendAfterClose ==
    [][AfterClose => collected_events' = collected_events]_vars

====
